---- MODULE Spec2Model ----
(***************************************************************************)
(* Model of ICF-check.py: the version lookup find_all_icf_versions and     *)
(* generate_report (status reconciliation per participant, comment         *)
(* composition, row emission and the merge loop over the Word table).      *)
(*                                                                         *)
(* Dates are day numbers: date d stands for the timestamp 2020-01-d, and   *)
(* NaT is the missing timestamp pd.to_datetime(errors="coerce") produces.  *)
(* A missing spreadsheet cell read with dtype=str is the float NaN.        *)
(***************************************************************************)
EXTENDS Integers, Sequences, FiniteSets, TLC

VARIABLES icf_df, consents_df, consent_cols, eos_df, elig_df,
          pc, todo, rows, table, start, end, current_pid, merged,
          date, versions

vars == <<icf_df, consents_df, consent_cols, eos_df, elig_df,
          pc, todo, rows, table, start, end, current_pid, merged,
          date, versions>>

-----------------------------------------------------------------------------
(* Bounds of the model *)

\* the largest day number of a date
MaxDate == 2
\* the largest number of rows of the version catalog
MaxVersions == 2
\* the largest number of rows of the consent table (one participant)
MaxConsents == 2
\* the largest number of rows of the consent table (several participants)
OrderRows == 3
\* the largest number of table rows handed to the merge loop on its own
MaxRows == 4

-----------------------------------------------------------------------------
(* Values *)

NaT == 0
NaN == "<NaN>"

Dates == 1..MaxDate
DateCells == {NaT} \cup Dates

\* pd.isna / pd.notna of a timestamp (None, the value dict.get gives for a
\* missing key, is missing like NaT)
isna(d) == d = NaT
notna(d) == ~isna(d)

\* participants: participant i has the Patient-ID text "P<i>"
OnePid == {1}
Pids == {1, 2}
PidName(i) == "P" \o ToString(i)

VersionName(i) == "V" \o ToString(i)
VersionNames == {VersionName(i) : i \in 1..MaxVersions}

RandoCells == {"A", NaN}
EligCells == {"yes", "Yes", "no", "NO", "No", NaN}

Range(s) == {s[i] : i \in DOMAIN s}

SeqsUpTo(S, n) == UNION {[1..k -> S] : k \in 0..n}

Pad2(n) == IF n < 10 THEN "0" \o ToString(n) ELSE ToString(n)

\* Timestamp.strftime("%Y-%m-%d")
strftime_iso(d) == "2020-01-" \o Pad2(d)

\* Timestamp.strftime("%d.%m.%Y")
strftime_dmy(d) == Pad2(d) \o ".01.2020"

\* str.lower, letter by letter (the letters A-Z; other characters of the
\* texts read here are left as they are)
LowerChar(c) ==
    CASE c = "A" -> "a" [] c = "B" -> "b" [] c = "C" -> "c" [] c = "D" -> "d"
      [] c = "E" -> "e" [] c = "F" -> "f" [] c = "G" -> "g" [] c = "H" -> "h"
      [] c = "I" -> "i" [] c = "J" -> "j" [] c = "K" -> "k" [] c = "L" -> "l"
      [] c = "M" -> "m" [] c = "N" -> "n" [] c = "O" -> "o" [] c = "P" -> "p"
      [] c = "Q" -> "q" [] c = "R" -> "r" [] c = "S" -> "s" [] c = "T" -> "t"
      [] c = "U" -> "u" [] c = "V" -> "v" [] c = "W" -> "w" [] c = "X" -> "x"
      [] c = "Y" -> "y" [] c = "Z" -> "z"
      [] OTHER -> c

RECURSIVE lower(_)
lower(s) ==
    IF s = "" THEN ""
    ELSE LowerChar(SubSeq(s, 1, 1)) \o lower(SubSeq(s, 2, Len(s)))

\* f"{x}" of a cell: the float NaN formats as "nan"
fstr(x) == IF x = NaN THEN "nan" ELSE x

\* dict.get(key, default)
DictGet(m, k, default) == IF k \in DOMAIN m THEN m[k] ELSE default

\* Timestamp comparisons: any comparison with NaT is False
ts_le(a, b) == a # NaT /\ b # NaT /\ a <= b
ts_gt(a, b) == a # NaT /\ b # NaT /\ a > b
ts_ge(a, b) == a # NaT /\ b # NaT /\ a >= b

\* sort_values places a before b: ascending, NaT last.  Rows with equal
\* dates keep their order in the sorts below; no result read by the report
\* depends on the order of such rows (the tied versions of a lookup are used
\* as a set of names, and the rows of a group with equal dates carry the same
\* randomisation cells in the inputs drawn here).
SortsBefore(a, b) == a # NaT /\ (b = NaT \/ a < b)

\* Series.max(): the largest timestamp, NaT skipped; NaT when there is none
SeriesMax(S) == IF S \ {NaT} = {} THEN NaT
                ELSE CHOOSE m \in S \ {NaT} : \A x \in S \ {NaT} : x <= m

-----------------------------------------------------------------------------
(* load_icf_versions: the catalog sorted by "Gueltig ab" *)

RECURSIVE InsertByGueltigAb(_, _)
InsertByGueltigAb(r, s) ==
    IF s = <<>> THEN <<r>>
    ELSE IF SortsBefore(r.gueltig_ab, Head(s).gueltig_ab) THEN <<r>> \o s
    ELSE <<Head(s)>> \o InsertByGueltigAb(r, Tail(s))

RECURSIVE SortByGueltigAb(_)
SortByGueltigAb(df) ==
    IF df = <<>> THEN <<>>
    ELSE InsertByGueltigAb(df[Len(df)], SortByGueltigAb(SubSeq(df, 1, Len(df) - 1)))

\* any sheet of catalog rows, before sorting
CatalogSheets ==
    SeqsUpTo([version : VersionNames, gueltig_ab : DateCells], MaxVersions)

\* a sheet with distinct version names, row i named V<i>
NamedSheets ==
    {s \in CatalogSheets : \A i \in DOMAIN s : s[i].version = VersionName(i)}

load_icf_versions(sheet) == SortByGueltigAb(sheet)

-----------------------------------------------------------------------------
(* find_all_icf_versions *)

\* the lookup without the restriction to the latest applicable date
find_all_valid_versions(df, d) ==
    IF isna(d) THEN <<>>
    ELSE LET sorted == SortByGueltigAb(df)
             IsValid(r) == ts_le(r.gueltig_ab, d)
             valid_rows == SelectSeq(sorted, IsValid)
         IN  [i \in DOMAIN valid_rows |-> valid_rows[i].version]

find_all_icf_versions(df, d) ==
    IF isna(d) THEN <<>>
    ELSE LET sorted == SortByGueltigAb(df)
             IsValid(r) == ts_le(r.gueltig_ab, d)
             valid_rows == SelectSeq(sorted, IsValid)
         IN  IF valid_rows = <<>> THEN <<>>
             ELSE LET latest_valid_date ==
                          SeriesMax({valid_rows[i].gueltig_ab : i \in DOMAIN valid_rows})
                      IsLatest(r) == r.gueltig_ab = latest_valid_date
                      hit == SelectSeq(valid_rows, IsLatest)
                  IN  [i \in DOMAIN hit |-> hit[i].version]

-----------------------------------------------------------------------------
(* generate_report: the loop over the participants of the consent table *)

\* eos_df.set_index("mnpaid").get("eosdat").to_dict(), and the like
eos_map == [p \in DOMAIN eos_df |-> eos_df[p].eosdat]
dth_map == [p \in DOMAIN eos_df |-> eos_df[p].dthdat]
elig_map == [p \in DOMAIN elig_df |-> elig_df[p].eligyn]

RECURSIVE Ascending(_)
Ascending(S) ==
    IF S = {} THEN <<>>
    ELSE LET m == CHOOSE x \in S : \A y \in S : x <= y
         IN  <<m>> \o Ascending(S \ {m})

\* the keys of a loop over the rows of the table instead of its groups
RowKeys(df) == [i \in DOMAIN df |-> df[i].mnpaid]

\* the keys consents_df.groupby("mnpaid") iterates: each participant of the
\* table once, in ascending order
GroupKeys(df) == Ascending({df[i].mnpaid : i \in DOMAIN df})

RECURSIVE InsertByIcdat(_, _)
InsertByIcdat(r, s) ==
    IF s = <<>> THEN <<r>>
    ELSE IF SortsBefore(r.icdat, Head(s).icdat) THEN <<r>> \o s
    ELSE <<Head(s)>> \o InsertByIcdat(r, Tail(s))

RECURSIVE SortByIcdat(_)
SortByIcdat(df) ==
    IF df = <<>> THEN <<>>
    ELSE InsertByIcdat(df[Len(df)], SortByIcdat(SubSeq(df, 1, Len(df) - 1)))

\* the group of one participant, sorted by signature date
Group(df, pid) ==
    LET IsOfPid(r) == r.mnpaid = pid
    IN  SortByIcdat(SelectSeq(df, IsOfPid))

\* elig_map.get(pid, "yes"): the text, or the float NaN of an empty cell
EligCell(pid) == DictGet(elig_map, pid, "yes")

\* .lower() of a float raises AttributeError
EligRaises(pid) == EligCell(pid) = NaN

\* the eligibility text compared as written, without .lower()
EligAsWritten(pid) == EligCell(pid)

Elig(pid) == lower(EligCell(pid))

\* group.iloc[0].get(col, "-")
RowGet(r, col) ==
    IF col \in consent_cols
    THEN (IF col = "mnp_rando_gr" THEN r.mnp_rando_gr ELSE r.mnp_rando_v6_gr)
    ELSE "-"

RandoText(group) ==
    fstr(RowGet(group[1], "mnp_rando_gr")) \o " / "
        \o fstr(RowGet(group[1], "mnp_rando_v6_gr"))

EosText(eos_date, dth_date) ==
    IF notna(dth_date) THEN "EOS (Death, " \o strftime_dmy(dth_date) \o ")"
    ELSE IF notna(eos_date) THEN "EOS (" \o strftime_dmy(eos_date) \o ")"
    ELSE ""

\* "\n".join(parts)
RECURSIVE JoinLines(_)
JoinLines(parts) ==
    IF parts = <<>> THEN ""
    ELSE IF Len(parts) = 1 THEN parts[1]
    ELSE parts[1] \o "\n" \o JoinLines(Tail(parts))

\* filter(None, parts)
FilterNone(parts) ==
    LET NonEmpty(t) == t # ""
    IN  SelectSeq(parts, NonEmpty)

Comment(elig, rando_text, eos_text) ==
    IF elig = "no" THEN "Screening Failure"
    ELSE JoinLines(FilterNone(<<rando_text, eos_text>>))

\* one signature event: every version it resolves to takes its date
Record(sv, found, icdate) ==
    [v \in DOMAIN sv \cup Range(found) |->
        IF v \in Range(found) THEN strftime_iso(icdate) ELSE sv[v]]

\* the dict signed_versions after the loop over the group
RECURSIVE SignedVersions(_, _, _)
SignedVersions(df, group, sv) ==
    IF group = <<>> THEN sv
    ELSE LET icdate == Head(group).icdat
             found == find_all_icf_versions(df, icdate)
         IN  SignedVersions(df, Tail(group), Record(sv, found, icdate))

LastConsent(group) == SeriesMax({group[i].icdat : i \in DOMAIN group})

\* the status with the exit date required to be after the effective date
StatusExitAfter(icf, signed_versions, elig, last_consent, eos_date) ==
    IF icf.version \in DOMAIN signed_versions
    THEN signed_versions[icf.version]
    ELSE IF /\ elig # "no"
            /\ ts_gt(icf.gueltig_ab, last_consent)
            /\ (isna(eos_date) \/ ts_gt(eos_date, icf.gueltig_ab))
    THEN "CHECK"
    ELSE "n.a."

\* the "Date" of one catalog version
Status(icf, signed_versions, elig, last_consent, eos_date) ==
    IF icf.version \in DOMAIN signed_versions
    THEN signed_versions[icf.version]
    ELSE IF /\ elig # "no"
            /\ ts_gt(icf.gueltig_ab, last_consent)
            /\ (isna(eos_date) \/ ts_ge(eos_date, icf.gueltig_ab))
    THEN "CHECK"
    ELSE "n.a."

\* the rows one participant appends, one per catalog row in catalog order
GroupRows(pid) ==
    LET group == Group(consents_df, pid)
        elig == Elig(pid)
        eos_date == DictGet(eos_map, pid, NaT)
        dth_date == DictGet(dth_map, pid, NaT)
        signed_versions == SignedVersions(icf_df, group, <<>>)
        comment == Comment(elig, RandoText(group), EosText(eos_date, dth_date))
        last_consent == LastConsent(group)
    IN  [i \in DOMAIN icf_df |->
            [patient_id |-> PidName(pid),
             version |-> icf_df[i].version,
             date |-> Status(icf_df[i], signed_versions, elig, last_consent, eos_date),
             comment |-> comment]]

\* one pass of "for pid, group in consents_df.groupby(...)"
ProcessGroup ==
    /\ pc = "groups"
    /\ todo # <<>>
    /\ IF EligRaises(Head(todo))
       THEN pc' = "raised" /\ UNCHANGED <<todo, rows>>
       ELSE /\ rows' = rows \o GroupRows(Head(todo))
            /\ todo' = Tail(todo)
            /\ pc' = pc
    /\ UNCHANGED <<icf_df, consents_df, consent_cols, eos_df, elig_df,
                   table, start, end, current_pid, merged, date, versions>>

-----------------------------------------------------------------------------
(* generate_report: the Word table and the merge loop *)

\* table.add_row() for every report row; table_rows = table.rows[1:]
TableOf(rs) ==
    [i \in DOMAIN rs |->
        [c0 |-> rs[i].patient_id, c1 |-> rs[i].version,
         c2 |-> rs[i].date, c3 |-> rs[i].comment]]

BuildTable ==
    /\ pc = "groups"
    /\ todo = <<>>
    /\ table' = TableOf(rows)
    /\ start' = 0
    /\ pc' = "merge"
    /\ UNCHANGED <<icf_df, consents_df, consent_cols, eos_df, elig_df,
                   todo, rows, end, current_pid, merged, date, versions>>

n_rows == Len(table)

\* table_rows[i].cells[0].text, rows counted from 0
PidText(i) == table[i + 1].c0

\* "while start < n_rows": read the run's Patient-ID
MergeBegin ==
    /\ pc = "merge"
    /\ start < n_rows
    /\ current_pid' = PidText(start)
    /\ end' = start + 1
    /\ pc' = "scan"
    /\ UNCHANGED <<icf_df, consents_df, consent_cols, eos_df, elig_df,
                   todo, rows, table, start, merged, date, versions>>

\* the scan without the comparison of the Patient-ID
ScanToEnd == end < n_rows

ScanOn == end < n_rows /\ PidText(end) = current_pid

\* "while end < n_rows and ...: end += 1"
MergeScan ==
    /\ pc = "scan"
    /\ ScanOn
    /\ end' = end + 1
    /\ UNCHANGED <<icf_df, consents_df, consent_cols, eos_df, elig_df,
                   pc, todo, rows, table, start, current_pid, merged, date, versions>>

\* the cells of rows first..last-1 of both merged columns cleared, the merged
\* cell (the one of row first) given the text it had
MergeCells(t, first, last) ==
    [i \in DOMAIN t |->
        IF first + 1 < i /\ i <= last
        THEN [t[i] EXCEPT !.c0 = "", !.c3 = ""]
        ELSE t[i]]

\* the spans a run of rows first..last-1 adds: none for a single row
SpansOf(first, last) ==
    IF last - first > 1
    THEN {[col |-> 0, first |-> first, last |-> last - 1],
          [col |-> 3, first |-> first, last |-> last - 1]}
    ELSE {}

\* "if end - start > 1: ..." and "start = end"
MergeRun ==
    /\ pc = "scan"
    /\ ~ScanOn
    /\ table' = (IF end - start > 1 THEN MergeCells(table, start, end) ELSE table)
    /\ merged' = merged \cup SpansOf(start, end)
    /\ start' = end
    /\ pc' = "merge"
    /\ UNCHANGED <<icf_df, consents_df, consent_cols, eos_df, elig_df,
                   todo, rows, end, current_pid, date, versions>>

\* the loop is left; the document is saved and returned
MergeDone ==
    /\ pc = "merge"
    /\ start >= n_rows
    /\ pc' = "done"
    /\ UNCHANGED <<icf_df, consents_df, consent_cols, eos_df, elig_df,
                   todo, rows, table, start, end, current_pid, merged, date, versions>>

-----------------------------------------------------------------------------
(* A call of find_all_icf_versions on its own *)

Lookup ==
    /\ pc = "lookup"
    /\ \E d \in DateCells :
          /\ date' = d
          /\ versions' = find_all_icf_versions(icf_df, d)
    /\ UNCHANGED <<icf_df, consents_df, consent_cols, eos_df, elig_df,
                   pc, todo, rows, table, start, end, current_pid, merged>>

-----------------------------------------------------------------------------
(* Inputs and specifications *)

RandoCols == {"mnp_rando_gr", "mnp_rando_v6_gr"}

\* a date cell that is absent or holds the first day
AbsentOrFirst == {NaT, 1}

\* a table indexed by mnpaid with at most one row per participant
Tables(P, Row) == UNION {[S -> Row] : S \in SUBSET P}

NoTable == <<>>

Idle ==
    /\ table = <<>> /\ start = 0 /\ end = 0 /\ current_pid = "" /\ merged = {}
    /\ date = NaT /\ versions = <<>>

\* generate_report on the tables of one participant: any signature dates,
\* exit date and eligibility cell, the death date absent or the first day
Init ==
    /\ icf_df \in {load_icf_versions(s) : s \in NamedSheets}
    /\ consents_df \in SeqsUpTo([mnpaid : OnePid, icdat : DateCells,
                                  mnp_rando_gr : {"A"}, mnp_rando_v6_gr : {"A"}],
                                 MaxConsents)
    /\ consent_cols = RandoCols
    /\ eos_df \in Tables(OnePid, [eosdat : DateCells, dthdat : AbsentOrFirst])
    /\ elig_df \in Tables(OnePid, [eligyn : EligCells])
    /\ pc = "groups"
    /\ todo = GroupKeys(consents_df)
    /\ rows = <<>>
    /\ Idle

Next == ProcessGroup \/ BuildTable \/ MergeBegin \/ MergeScan \/ MergeRun \/ MergeDone

Spec == Init /\ [][Next]_vars

\* generate_report on the tables of several participants: the signature dates
\* and the eligibility cells are drawn from two values each

InitOrder ==
    /\ icf_df \in {load_icf_versions(s) : s \in NamedSheets}
    /\ consents_df \in SeqsUpTo([mnpaid : Pids, icdat : AbsentOrFirst,
                                  mnp_rando_gr : {"A"}, mnp_rando_v6_gr : {"A"}],
                                 OrderRows)
    /\ consent_cols = RandoCols
    /\ eos_df = NoTable
    /\ elig_df \in Tables(Pids, [eligyn : {"no", NaN}])
    /\ pc = "groups"
    /\ todo = GroupKeys(consents_df)
    /\ rows = <<>>
    /\ Idle

SpecOrder == InitOrder /\ [][Next]_vars

\* generate_report on one signature event with any randomisation cells, with
\* or without the two randomisation columns
InitComment ==
    /\ icf_df \in {load_icf_versions(s) : s \in NamedSheets}
    /\ consent_cols \in SUBSET RandoCols
    /\ consents_df \in
          {<<r>> : r \in {x \in [mnpaid : OnePid, icdat : DateCells,
                                 mnp_rando_gr : RandoCells,
                                 mnp_rando_v6_gr : RandoCells] :
                            /\ "mnp_rando_gr" \notin consent_cols => x.mnp_rando_gr = NaN
                            /\ "mnp_rando_v6_gr" \notin consent_cols
                                  => x.mnp_rando_v6_gr = NaN}}
    /\ eos_df \in Tables(OnePid, [eosdat : DateCells, dthdat : DateCells])
    /\ elig_df \in Tables(OnePid, [eligyn : {"yes", "no"}])
    /\ pc = "groups"
    /\ todo = GroupKeys(consents_df)
    /\ rows = <<>>
    /\ Idle

SpecComment == InitComment /\ [][Next]_vars

\* the merge loop on any table rows
TableRows ==
    [patient_id : {PidName(p) : p \in Pids}, version : {"V1"},
     date : {"n.a."}, comment : {"A / A", "Screening Failure"}]

InitMerge ==
    /\ icf_df = <<>> /\ consents_df = <<>> /\ consent_cols = RandoCols
    /\ eos_df = NoTable /\ elig_df = NoTable
    /\ todo = <<>>
    /\ rows \in SeqsUpTo(TableRows, MaxRows)
    /\ table = TableOf(rows)
    /\ start = 0 /\ end = 0 /\ current_pid = "" /\ merged = {}
    /\ date = NaT /\ versions = <<>>
    /\ pc = "merge"

NextMerge == MergeBegin \/ MergeScan \/ MergeRun \/ MergeDone

\* the loop is sequential code: a step that can be taken is taken
SpecMerge == InitMerge /\ [][NextMerge]_vars /\ WF_vars(NextMerge)

\* find_all_icf_versions on any catalog sheet and any date
InitLookup ==
    /\ icf_df \in CatalogSheets
    /\ consents_df = <<>> /\ consent_cols = RandoCols
    /\ eos_df = NoTable /\ elig_df = NoTable
    /\ todo = <<>> /\ rows = <<>>
    /\ Idle
    /\ pc = "lookup"

NextLookup == Lookup

SpecLookup == InitLookup /\ [][NextLookup]_vars

-----------------------------------------------------------------------------
(* The vocabulary of the properties, stated on the input tables *)

MaxOf(S) == CHOOSE m \in S : \A x \in S : x <= m
MinOf(S) == CHOOSE m \in S : \A x \in S : m <= x

\* the participants of the signature table, and all the inputs know
Participants == {consents_df[i].mnpaid : i \in DOMAIN consents_df}
KnownParticipants == Participants \cup DOMAIN eos_df \cup DOMAIN elig_df

\* the valid dates of a participant's signature events
SignatureDates(p) ==
    {consents_df[i].icdat : i \in {j \in DOMAIN consents_df : consents_df[j].mnpaid = p}}
        \ {NaT}

\* the effective-from dates not after d, and the versions in force at d
EffectiveUpTo(d) == {icf_df[i].gueltig_ab : i \in DOMAIN icf_df} \cap (1..d)
TiedLatest(d) ==
    IF EffectiveUpTo(d) = {} THEN {}
    ELSE {i \in DOMAIN icf_df : icf_df[i].gueltig_ab = MaxOf(EffectiveUpTo(d))}
InForceAt(d) == {icf_df[i].version : i \in TiedLatest(d)}

\* the signature dates of p that resolve to version v
DatesSigning(p, v) == {d \in SignatureDates(p) : v \in InForceAt(d)}

\* the eligibility cell reads "no" in some letter case
Ineligible(p) ==
    p \in DOMAIN elig_df /\ elig_df[p].eligyn \in {"no", "NO", "No", "nO"}
EligibilityAbsent(p) == p \notin DOMAIN elig_df \/ elig_df[p].eligyn = NaN
ExitDate(p) == IF p \in DOMAIN eos_df THEN eos_df[p].eosdat ELSE NaT
DeathDate(p) == IF p \in DOMAIN eos_df THEN eos_df[p].dthdat ELSE NaT

\* the report rows of participant p, as indices and as a sequence
RowIndices(p) == {i \in DOMAIN rows : rows[i].patient_id = PidName(p)}
RowsOf(p) ==
    LET IsOfPid(r) == r.patient_id = PidName(p)
    IN  SelectSeq(rows, IsOfPid)

\* the catalog row of a version name (the names of a report catalog differ)
EffectiveFrom(v) == (CHOOSE r \in Range(icf_df) : r.version = v).gueltig_ab

\* version v became effective after the last signature of p, while p was
\* still in the trial
BecameDue(p, v) ==
    /\ EffectiveFrom(v) > MaxOf(SignatureDates(p) \cup {NaT})
    /\ (ExitDate(p) = NaT \/ ExitDate(p) >= EffectiveFrom(v))

-----------------------------------------------------------------------------
(* Properties *)

\* C1: for a participant with a valid signature date, each row's status is
\* decided by the first matching rule: signed version -> an ISO date of a
\* signature resolving to it; ineligible -> "n.a."; effective after the last
\* signature and not after the exit -> "CHECK"; otherwise "n.a.".
StatusByFirstRule ==
    \A p \in Participants : SignatureDates(p) # {} =>
        \A i \in RowIndices(p) :
            LET v == rows[i].version
                signed == DatesSigning(p, v)
            IN  IF signed # {} THEN rows[i].date \in {strftime_iso(d) : d \in signed}
                ELSE IF Ineligible(p) THEN rows[i].date = "n.a."
                ELSE IF BecameDue(p, v) THEN rows[i].date = "CHECK"
                ELSE rows[i].date = "n.a."

\* C1 witness: an eligible participant with a signed version and a version
\* that became effective after the exit date, reported "n.a."
StatusWitness ==
    /\ pc = "done"
    /\ \E p \in Participants : \E i, j \in RowIndices(p) :
          /\ ~Ineligible(p)
          /\ DatesSigning(p, rows[i].version) # {}
          /\ rows[i].date = strftime_iso(MaxOf(SignatureDates(p)))
          /\ DatesSigning(p, rows[j].version) = {}
          /\ EffectiveFrom(rows[j].version) > MaxOf(SignatureDates(p))
          /\ ExitDate(p) # NaT
          /\ ExitDate(p) < EffectiveFrom(rows[j].version)
          /\ rows[j].date = "n.a."

\* C2: no row of a participant whose eligibility is "no" (any letter case)
\* is "CHECK", and each carries the comment "Screening Failure".
IneligibleNeverCheck ==
    \A p \in Participants : Ineligible(p) =>
        \A i \in RowIndices(p) :
            /\ rows[i].date # "CHECK"
            /\ rows[i].comment = "Screening Failure"

\* C2 witness: a participant marked "NO" with a death date and no exit date,
\* and an unsigned version effective after the last signature.
IneligibleWitness ==
    /\ pc = "done"
    /\ \E p \in Participants : \E i \in RowIndices(p) :
          /\ p \in DOMAIN elig_df
          /\ elig_df[p].eligyn = "NO"
          /\ SignatureDates(p) # {}
          /\ DatesSigning(p, rows[i].version) = {}
          /\ BecameDue(p, rows[i].version)
          /\ DeathDate(p) # NaT
          /\ rows[i].date = "n.a."

\* C3: when two different signature dates resolve to the same version, the
\* row of that version shows the earliest of them.
EarliestDateShown ==
    \A p \in Participants : \A i \in RowIndices(p) :
        LET signed == DatesSigning(p, rows[i].version)
        IN  Cardinality(signed) >= 2 => rows[i].date = strftime_iso(MinOf(signed))

\* C4: an eligible participant without a valid signature date (no row in
\* the signature table, or only rows without a date) is reported "CHECK" for
\* every version effective while the participant was in the trial, and "n.a."
\* for the others.
NoSignatureSweep ==
    \A p \in KnownParticipants : (SignatureDates(p) = {} /\ ~Ineligible(p)) =>
        \A k \in DOMAIN icf_df : icf_df[k].gueltig_ab # NaT =>
            LET due == IF ExitDate(p) = NaT \/ ExitDate(p) >= icf_df[k].gueltig_ab
                       THEN "CHECK" ELSE "n.a."
            IN  /\ \A i \in RowIndices(p) :
                      rows[i].version = icf_df[k].version => rows[i].date = due
                /\ pc = "done" =>
                      \E i \in RowIndices(p) : rows[i].version = icf_df[k].version

\* C5: when generate_report has ended, every participant the inputs know
\* has exactly one row per catalog version, in catalog order.
OneRowPerVersion ==
    pc \in {"done", "raised"} =>
        \A p \in KnownParticipants :
            [i \in DOMAIN RowsOf(p) |-> RowsOf(p)[i].version]
                = [k \in DOMAIN icf_df |-> icf_df[k].version]

\* C6: find_all_icf_versions returns exactly the versions whose effective
\* date is the largest one not after the date; nothing when the date is
\* missing or no version is effective by then.
LookupTiedLatest ==
    pc = "lookup" =>
        /\ Range(versions) = InForceAt(date)
        /\ Len(versions) = Cardinality(TiedLatest(date))
        /\ (versions = <<>>) <=> (date = NaT \/ EffectiveUpTo(date) = {})

\* C6 witness: a lookup that returns one version and leaves out an earlier
\* one that was effective too.
LookupWitness ==
    /\ pc = "lookup"
    /\ date # NaT
    /\ Len(versions) = 1
    /\ \E i \in DOMAIN icf_df :
          /\ icf_df[i].gueltig_ab # NaT
          /\ icf_df[i].gueltig_ab < date
          /\ icf_df[i].version \notin Range(versions)

\* the runs the merge loop made: its spans of column 0 and the rows left alone
SpansOfColumn(c) ==
    {[first |-> m.first, last |-> m.last] : m \in {x \in merged : x.col = c}}
RunsMade ==
    SpansOfColumn(0) \cup
    {[first |-> i, last |-> i] :
        i \in {j \in 0..(Len(rows) - 1) :
                  \A m \in SpansOfColumn(0) : j < m.first \/ j > m.last}}

RECURSIVE RowCount(_)
RowCount(S) ==
    IF S = {} THEN 0
    ELSE LET r == CHOOSE x \in S : TRUE
         IN  (r.last - r.first + 1) + RowCount(S \ {r})

MergePartition ==
    /\ \A r \in RunsMade :
          /\ 0 <= r.first /\ r.first <= r.last /\ r.last < Len(rows)
          /\ \A i \in r.first..r.last :
                rows[i + 1].patient_id = rows[r.first + 1].patient_id
          /\ r.first > 0 =>
                rows[r.first].patient_id # rows[r.first + 1].patient_id
          /\ r.last < Len(rows) - 1 =>
                rows[r.last + 2].patient_id # rows[r.last + 1].patient_id
          /\ table[r.first + 1].c0 = rows[r.first + 1].patient_id
          /\ table[r.first + 1].c3 = rows[r.first + 1].comment
          /\ \A i \in (r.first + 1)..r.last :
                table[i + 1].c0 = "" /\ table[i + 1].c3 = ""
    /\ \A r1, r2 \in RunsMade :
          r1 # r2 => (r1.last < r2.first \/ r2.last < r1.first)
    /\ RowCount(RunsMade) = Len(rows)
    /\ \A m \in merged : m.col \in {0, 3} /\ m.last > m.first
    /\ SpansOfColumn(3) = SpansOfColumn(0)
    /\ \A i \in DOMAIN rows :
          table[i].c1 = rows[i].version /\ table[i].c2 = rows[i].date

\* C7: the merge loop ends, and it has then partitioned the rows into the
\* maximal runs of adjacent rows with equal Patient-ID, merging only the
\* Patient-ID and Comment cells.
MergeEndsInPartition ==
    /\ <>(pc = "done")
    /\ [](pc = "done" => MergePartition)

\* C7 witness: a finished merge with a merged span and a second run.
MergeWitness ==
    /\ pc = "done"
    /\ merged # {}
    /\ Cardinality(RunsMade) >= 2

\* C8: a participant whose eligibility is absent (no record, or an empty
\* cell) is treated as eligible and the report completes without raising.
AbsentEligibilityCompletes ==
    \A p \in Participants : EligibilityAbsent(p) =>
        /\ pc # "raised"
        /\ \A i \in RowIndices(p) : rows[i].comment # "Screening Failure"

\* the group value of the comment, "-" standing for a missing one
GroupValue(p, col) ==
    LET cell == IF col = "mnp_rando_gr" THEN Group(consents_df, p)[1].mnp_rando_gr
                ELSE Group(consents_df, p)[1].mnp_rando_v6_gr
    IN  IF col \notin consent_cols \/ cell = NaN THEN "-" ELSE cell

ExitAnnotation(p) ==
    IF DeathDate(p) # NaT THEN "\nEOS (Death, " \o strftime_dmy(DeathDate(p)) \o ")"
    ELSE IF ExitDate(p) # NaT THEN "\nEOS (" \o strftime_dmy(ExitDate(p)) \o ")"
    ELSE ""

\* C9: the comment of an eligible participant is "{group1} / {group2}" with
\* "-" for a missing group value, followed by a line break and the exit
\* annotation when a death or exit date is present.
CommentComposed ==
    \A p \in Participants : ~Ineligible(p) =>
        \A i \in RowIndices(p) :
            rows[i].comment =
                GroupValue(p, "mnp_rando_gr") \o " / "
                    \o GroupValue(p, "mnp_rando_v6_gr") \o ExitAnnotation(p)

\* C10: the rows handed to the merge loop are contiguous per participant,
\* and the finished merge has one Patient-ID span and one Comment span per
\* participant, covering all rows of the participant.
ParticipantRowsContiguous ==
    /\ pc \in {"merge", "scan", "done"} =>
          \A i, j \in DOMAIN rows :
              (i < j /\ rows[i].patient_id = rows[j].patient_id) =>
                  \A k \in i..j : rows[k].patient_id = rows[i].patient_id
    /\ pc = "done" =>
          \A p \in Participants : \A c \in {0, 3} :
              LET touching == {m \in merged : /\ m.col = c
                                             /\ \E i \in RowIndices(p) :
                                                   m.first + 1 <= i /\ i <= m.last + 1}
              IN  IF Cardinality(RowIndices(p)) > 1
                  THEN touching = {[col |-> c,
                                    first |-> MinOf(RowIndices(p)) - 1,
                                    last |-> MaxOf(RowIndices(p)) - 1]}
                  ELSE touching = {}

\* C10 witness: a finished report of two participants with two rows each,
\* the first participant with two signature events around one of the second.
ContiguousWitness ==
    /\ pc = "done"
    /\ Len(consents_df) = 3
    /\ consents_df[1].mnpaid = 1 /\ consents_df[2].mnpaid = 2 /\ consents_df[3].mnpaid = 1
    /\ Len(rows) = 4
    /\ Cardinality(merged) = 4

====
